---- MODULE Spec2Model ----
(***************************************************************************)
(* Model of the executable logic of the Alliage documentation site:       *)
(*   - the homepage components (HomepageFeatures, Feature, Home),          *)
(*   - the tutorial's MessageFactory / MainProcess (CLI tutorial),         *)
(*   - the tutorial's MealPairingService (REST API tutorial).              *)
(* JavaScript strings that the code transforms (replace, toLowerCase) are  *)
(* sequences of one-character strings; strings the code only passes on    *)
(* are TLA+ strings.                                                       *)
(***************************************************************************)
EXTENDS Integers, Sequences, FiniteSets, TLC

VARIABLES
    featureList,   \* the module-level FeatureList array of HomepageFeatures
    siteConfig,    \* what useDocusaurusContext() returns
    rendered,      \* the outputs of the renders done so far, oldest first
    factory,       \* which MessageFactory of the tutorial MainProcess is built with
    messages,      \* the messages configuration injected into MessageFactory
    call,          \* the last call: its arguments, its outcome and the strings it
                   \* gave to process.stdout.write, oldest first
    pairing,       \* the last getIngredientFromMeal call: meal and result
    cli,           \* one run of the say-hello command-line application: its
                   \* listeners, the process position, the log and the output
    mongo,         \* one run of an application using the MongoDB module
    restApp        \* the REST application: how it is built, the request being
                   \* handled, the service calls made for it and its answer

vars == <<featureList, siteConfig, rendered, factory, messages, call, pairing, cli, mongo, restApp>>

homeVars == <<featureList, siteConfig, rendered>>
messageVars == <<factory, messages, call>>
pairingVars == <<pairing>>
restVars == <<restApp>>
cliVars == <<cli>>
mongoVars == <<mongo>>

\* The variables outside each part of the model.
notHomeVars == <<messageVars, pairingVars, restVars, cliVars, mongoVars>>
notMessageVars == <<homeVars, pairingVars, restVars, cliVars, mongoVars>>
notPairingVars == <<homeVars, messageVars, restVars, cliVars, mongoVars>>
notRestVars == <<homeVars, messageVars, pairingVars, cliVars, mongoVars>>
notCliVars == <<homeVars, messageVars, pairingVars, restVars, mongoVars>>
notMongoVars == <<homeVars, messageVars, pairingVars, restVars, cliVars>>

(***************************************************************************)
(* Bounds                                                                  *)
(***************************************************************************)
MaxItems == 3      \* longest FeatureList explored
MaxRenders == 2    \* renders recorded in one behaviour
MaxNameLen == 2    \* longest name given to createHelloMessage

Undefined == "undefined"
NoCall == [op |-> "none"]

(***************************************************************************)
(* Homepage: src/components/HomepageFeatures and src/pages/index.tsx       *)
(***************************************************************************)

\* The three items of FeatureList as written in the source.
FeatureItems ==
    { [title |-> "Accessible by design",
       Svg |-> [asset |-> "@site/static/img/undraw_road-to-knowledge_f9zn.svg"],
       description |-> "Alliage doesn't drown you in complex patterns or overwhelming concepts. It provides all the tools to follow best practices like SOLID principles and clean architecture, but makes them feel natural and effortless."],
      [title |-> "Testing-driven from the ground up",
       Svg |-> [asset |-> "@site/static/img/undraw_scientist_5td0.svg"],
       description |-> "Testing isn't an afterthought-it's built into Alliage's DNA. Dependency injection makes each piece of code independent and easily testable, while our sandbox environment lets you run integration tests in complete isolation."],
      [title |-> "Configuration that just works",
       Svg |-> [asset |-> "@site/static/img/undraw_active-options_et7o.svg"],
       description |-> "Keep your configuration outside your code where it belongs, while making it seamlessly permeable to different environments. No more hardcoded values or configuration chaos."] }

\* FeatureList as the source defines it (display order).
SourceFeatureList ==
    LET byTitle(t) == CHOOSE it \in FeatureItems : it.title = t
    IN  << byTitle("Accessible by design"),
           byTitle("Testing-driven from the ground up"),
           byTitle("Configuration that just works") >>

\* Every FeatureItem list of at most MaxItems items.
FeatureLists == UNION { [1..n -> FeatureItems] : n \in 0..MaxItems }

\* styles.module.css: the class names the CSS module exports.
styles == [features |-> "styles.features", featureSvg |-> "styles.featureSvg",
           heroBanner |-> "styles.heroBanner", buttons |-> "styles.buttons"]

\* clsx(...args): the truthy arguments, in order, joined by spaces (kept as a list).
clsx(args) == SelectSeq(args, LAMBDA a : a # "" /\ a # Undefined)

\* Feature with the heading moved above the icon.
Feature_TitleAboveIcon(props) ==
    [type |-> "div", className |-> clsx(<<"col col--4">>),
     children |-> <<
        [type |-> "div", className |-> <<"text--center padding-horiz--md">>,
         children |-> << [type |-> "Heading", as |-> "h3", text |-> props.title],
                         [type |-> "p", text |-> props.description] >>],
        [type |-> "div", className |-> <<"text--center">>,
         children |-> << [type |-> "Svg", component |-> props.Svg,
                          className |-> <<styles.featureSvg>>, role |-> "img"] >>] >>]

\* function Feature({title, Svg, description})
Feature(props) ==
    [type |-> "div", className |-> clsx(<<"col col--4">>),
     children |-> <<
        [type |-> "div", className |-> <<"text--center">>,
         children |-> << [type |-> "Svg", component |-> props.Svg,
                          className |-> <<styles.featureSvg>>, role |-> "img"] >>],
        [type |-> "div", className |-> <<"text--center padding-horiz--md">>,
         children |-> << [type |-> "Heading", as |-> "h3", text |-> props.title],
                         [type |-> "p", text |-> props.description] >>] >>]

Reverse(seq) == [i \in 1..Len(seq) |-> seq[Len(seq) + 1 - i]]

\* The map walking the list from its end.
FeatureCells_Reversed(list) ==
    [i \in 1..Len(list) |->
        [type |-> "Feature", key |-> i - 1, props |-> Reverse(list)[i],
         output |-> Feature(Reverse(list)[i])]]

\* The map keying the cells from one.
FeatureCells_KeyedFromOne(list) ==
    [i \in 1..Len(list) |->
        [type |-> "Feature", key |-> i, props |-> list[i],
         output |-> Feature(list[i])]]

\* FeatureList.map((props, idx) => <Feature key={idx} {...props} />)
FeatureCells(list) ==
    [i \in 1..Len(list) |->
        [type |-> "Feature", key |-> i - 1, props |-> list[i],
         output |-> Feature(list[i])]]

\* HomepageFeatures keyed by a counter that survives between renders.
HomepageFeatures_Counter ==
    [type |-> "section", className |-> <<styles.features>>,
     children |-> <<
        [type |-> "div", className |-> <<"container">>,
         children |-> <<
            [type |-> "div", className |-> <<"row">>,
             children |-> [i \in 1..Len(featureList) |->
                [type |-> "Feature", key |-> Len(rendered) * Len(featureList) + i - 1,
                 props |-> featureList[i],
                 output |-> Feature(featureList[i])]]] >>] >>]

\* export default function HomepageFeatures()
HomepageFeatures ==
    [type |-> "section", className |-> <<styles.features>>,
     children |-> <<
        [type |-> "div", className |-> <<"container">>,
         children |-> <<
            [type |-> "div", className |-> <<"row">>,
             children |-> FeatureCells(featureList)] >>] >>]

\* useBaseUrl(path): the site's base URL prefixed to the path.
useBaseUrl(path) == <<siteConfig.baseUrl, path>>

\* function HomepageHeader()
HomepageHeader ==
    [type |-> "header", className |-> clsx(<<"hero hero--primary", styles.heroBanner>>),
     children |-> <<
        [type |-> "div", className |-> <<"container">>,
         children |-> <<
            [type |-> "ThemedImage", alt |-> "Alliage logo", width |-> "500",
             sources |-> [light |-> useBaseUrl("/img/alliage-logo-light.svg"),
                          dark |-> useBaseUrl("/img/alliage-logo-dark.svg")]],
            [type |-> "p", className |-> <<"hero__subtitle">>,
             text |-> siteConfig.tagline],
            [type |-> "div", className |-> <<styles.buttons>>,
             children |-> <<
                [type |-> "Link", className |-> <<"button button--secondary button--lg">>,
                 to |-> "/docs/intro", text |-> "Get started"] >>] >>] >>]

\* Home with the feature section above the header.
Home_FeaturesFirst ==
    [type |-> "Layout", title |-> siteConfig.title,
     description |-> "Build applications with proper dependency injection, clean architecture, and testing built in from the start",
     children |-> <<
        [type |-> "main", children |-> <<HomepageFeatures>>],
        HomepageHeader >>]

\* export default function Home()
Home ==
    [type |-> "Layout", title |-> siteConfig.title,
     description |-> "Build applications with proper dependency injection, clean architecture, and testing built in from the start",
     children |-> <<
        HomepageHeader,
        [type |-> "main", children |-> <<HomepageFeatures>>] >>]

\* The site configurations explored (docusaurus.config is not part of the sources).
SiteConfigs ==
    { [title |-> "Alliage", tagline |-> "tagline", baseUrl |-> "/"],
      [title |-> "Alliage", tagline |-> "tagline", baseUrl |-> "/site/"] }

\* A render through FeatureList.reverse().map(...), which reorders the array in place.
RenderHomepageFeatures_InPlace ==
    /\ Len(rendered) < MaxRenders
    /\ featureList' = Reverse(featureList)
    /\ rendered' = Append(rendered, [component |-> "HomepageFeatures",
                                     output |-> HomepageFeatures])
    /\ UNCHANGED siteConfig
    /\ UNCHANGED notHomeVars

\* One render of <HomepageFeatures />: FeatureList.map leaves the array as it is.
RenderHomepageFeatures ==
    /\ Len(rendered) < MaxRenders
    /\ rendered' = Append(rendered, [component |-> "HomepageFeatures",
                                     output |-> HomepageFeatures])
    /\ UNCHANGED <<featureList, siteConfig>>
    /\ UNCHANGED notHomeVars

\* One render of <Home />.
RenderHome ==
    /\ Len(rendered) < MaxRenders
    /\ rendered' = Append(rendered, [component |-> "Home", output |-> Home])
    /\ UNCHANGED <<featureList, siteConfig>>
    /\ UNCHANGED notHomeVars

InitHome ==
    /\ featureList \in FeatureLists
    /\ siteConfig \in SiteConfigs
    /\ rendered = << >>

InitMessageIdle ==
    /\ factory = "hardcoded"
    /\ messages = << >>
    /\ call = NoCall

InitPairingIdle == pairing = NoCall

InitRestIdle == restApp = NoCall

InitCliIdle == cli = NoCall

InitMongoIdle == mongo = NoCall

Init ==
    /\ InitHome
    /\ InitMessageIdle
    /\ InitPairingIdle
    /\ InitRestIdle
    /\ InitCliIdle
    /\ InitMongoIdle

Next ==
    \/ RenderHomepageFeatures
    \/ RenderHome

Spec == Init /\ [][Next]_vars

(***************************************************************************)
(* CLI tutorial: MessageFactory and MainProcess                            *)
(***************************************************************************)

\* Characters that cannot be written in a TLA+ string, as one-character atoms.
Backtick == "BACKTICK"
InvertedExclamation == "INVERTED_EXCLAMATION"

Return(v) == [kind |-> "return", value |-> v]
Throw(e) == [kind |-> "throw", error |-> e]

\* Every sequence over S of length at most n.
BoundedSeq(S, n) == UNION { [1..k -> S] : k \in 0..n }

\* String.prototype.indexOf(pattern): 0-based position of the first occurrence, or -1.
IndexOf(str, pattern) ==
    LET hits == { i \in 0..(Len(str) - Len(pattern)) :
                    SubSeq(str, i + 1, i + Len(pattern)) = pattern }
    IN  IF hits = {} THEN -1
        ELSE CHOOSE i \in hits : \A j \in hits : i <= j

\* GetSubstitution of ECMAScript for a string pattern (no capture groups): in the
\* replacement text, $$ stands for $, $& for the matched text, $ followed by a backtick for the text
\* before the match and $' for the text after it; any other $ stands for itself.
RECURSIVE GetSubstitution(_, _, _, _)
GetSubstitution(matched, str, position, replacement) ==
    IF replacement = << >> THEN << >>
    ELSE IF Head(replacement) = "$" /\ Len(replacement) >= 2
         THEN LET c == replacement[2]
                  rest == SubSeq(replacement, 3, Len(replacement))
                  tail == GetSubstitution(matched, str, position, rest)
              IN  CASE c = "$" -> <<"$">> \o tail
                    [] c = "&" -> matched \o tail
                    [] c = Backtick -> SubSeq(str, 1, position) \o tail
                    [] c = "'" -> SubSeq(str, position + Len(matched) + 1, Len(str)) \o tail
                    [] OTHER -> <<"$">> \o
                                GetSubstitution(matched, str, position, Tail(replacement))
         ELSE <<Head(replacement)>> \o
              GetSubstitution(matched, str, position, Tail(replacement))

\* A replace that inserts the replacement text as it is.
StringReplace_Literal(str, pattern, replacement) ==
    LET pos == IndexOf(str, pattern)
    IN  IF pos = -1 THEN str
        ELSE SubSeq(str, 1, pos) \o replacement
                \o SubSeq(str, pos + Len(pattern) + 1, Len(str))

\* String.prototype.replace(pattern, replacement) with two strings: the first
\* occurrence of the pattern is replaced by the substitution of the replacement.
StringReplace(str, pattern, replacement) ==
    LET pos == IndexOf(str, pattern)
    IN  IF pos = -1 THEN str
        ELSE SubSeq(str, 1, pos)
                \o GetSubstitution(pattern, str, pos, replacement)
                \o SubSeq(str, pos + Len(pattern) + 1, Len(str))

Placeholder == <<"{", "n", "a", "m", "e", "}">>

\* config/parameters.yaml: the messages section of the tutorial.
DocMessages ==
    [en |-> [helloMessage |-> <<"H", "e", "l", "l", "o", ",", " ", "{", "n", "a", "m", "e", "}", "!">>],
     fr |-> [helloMessage |-> <<"B", "o", "n", "j", "o", "u", "r", " ", "{", "n", "a", "m", "e", "}", " ", "!">>],
     es |-> [helloMessage |-> <<InvertedExclamation, "H", "o", "l", "a", " ", "{", "n", "a", "m", "e", "}", "!">>]]

\* The key sets of the configurations explored: the tutorial's, the unit test's,
\* one without English and one with English only.
ConfigKeySets == { {"en", "fr", "es"}, {"en", "fr"}, {"fr", "es"}, {"en"} }

\* A configuration whose French template has no placeholder and whose Spanish
\* template has two.
RewordedMessages ==
    [en |-> DocMessages.en,
     fr |-> [helloMessage |-> <<"S", "a", "l", "u", "t", " ", "!">>],
     es |-> [helloMessage |-> <<"{", "n", "a", "m", "e", "}", ",", " ", "h", "o", "l", "a", " ",
                                "{", "n", "a", "m", "e", "}", "!">>]]

Configs == { [l \in K |-> DocMessages[l]] : K \in ConfigKeySets } \cup { RewordedMessages }

\* The --language values and the names explored.
Languages == {"en", "fr", "es", "de"}
NameChars == {"J", "$", "&"}
Names == BoundedSeq(NameChars, MaxNameLen) \cup { <<"$", "'">>, <<"$", Backtick>> }

\* The hard-coded messages object: language -> template function.
HardCodedMessage(language, name) ==
    CASE language = "en" -> <<"H", "e", "l", "l", "o", ",", " ">> \o name \o <<"!">>
      [] language = "fr" -> <<"B", "o", "n", "j", "o", "u", "r", " ">> \o name \o <<" ", "!">>

HardCodedLanguages == {"en", "fr"}

\* MessageFactory.createHelloMessage, hard-coded messages (service extraction step).
CreateHelloMessageHardCoded(language, name) ==
    LET usedLanguage == IF language \in HardCodedLanguages THEN language ELSE "en"
    IN  Return(HardCodedMessage(usedLanguage, name))

\* The configuration-injected createHelloMessage falling back to the first key.
CreateHelloMessageConfig_FallbackFirst(msgs, language, name) ==
    LET usedLanguage == IF language \in DOMAIN msgs THEN language
                        ELSE CHOOSE l \in DOMAIN msgs : l # "en" \/ DOMAIN msgs = {"en"}
    IN  Return(StringReplace(msgs[usedLanguage].helloMessage, Placeholder, name))

\* MessageFactory.createHelloMessage, messages injected from the configuration:
\* this.messages["en"] is undefined when the configuration has no "en" entry, and
\* reading .helloMessage of undefined throws a TypeError.
CreateHelloMessageConfig(msgs, language, name) ==
    LET usedLanguage == IF language \in DOMAIN msgs THEN language ELSE "en"
    IN  IF usedLanguage \notin DOMAIN msgs
        THEN Throw("TypeError")
        ELSE Return(StringReplace(msgs[usedLanguage].helloMessage, Placeholder, name))

\* The createHelloMessage of the factory MainProcess was built with.
CreateHelloMessage(language, name) ==
    IF factory = "hardcoded"
    THEN CreateHelloMessageHardCoded(language, name)
    ELSE CreateHelloMessageConfig(messages, language, name)

\* The languages the factory in use supports: Object.keys(messages).
AvailableLanguages ==
    IF factory = "hardcoded" THEN HardCodedLanguages ELSE DOMAIN messages

\* A direct call messageFactory.createHelloMessage(language, name).
CallCreateHelloMessage ==
    \E language \in Languages, name \in Names :
        /\ call' = [op |-> "createHelloMessage", language |-> language, name |-> name,
                    result |-> CreateHelloMessage(language, name), writes |-> << >>]
        /\ UNCHANGED <<factory, messages>>
        /\ UNCHANGED notMessageVars

\* MainProcess.execute(args): an exception of createHelloMessage leaves execute
\* before process.stdout.write; otherwise the message is written and true returned.
Execute ==
    \E language \in Languages, name \in Names :
        LET message == CreateHelloMessage(language, name)
        IN  /\ IF message.kind = "throw"
               THEN call' = [op |-> "execute", language |-> language, name |-> name,
                             result |-> message, writes |-> << >>]
               ELSE call' = [op |-> "execute", language |-> language, name |-> name,
                             result |-> Return(TRUE), writes |-> <<message.value>>]
            /\ UNCHANGED <<factory, messages>>
            /\ UNCHANGED notMessageVars

InitHomeIdle ==
    /\ featureList = SourceFeatureList
    /\ siteConfig = [title |-> "Alliage", tagline |-> "tagline", baseUrl |-> "/"]
    /\ rendered = << >>

InitMessage ==
    /\ InitHomeIdle
    /\ InitPairingIdle
    /\ InitRestIdle
    /\ InitCliIdle
    /\ InitMongoIdle
    /\ \/ factory = "hardcoded" /\ messages = << >>
       \/ factory = "config" /\ messages \in Configs
    /\ call = NoCall

NextMessage ==
    \/ CallCreateHelloMessage
    \/ Execute

SpecMessage == InitMessage /\ [][NextMessage]_vars

(***************************************************************************)
(* REST API tutorial: MealPairingService.getIngredientFromMeal             *)
(***************************************************************************)

\* JavaScript values: strings (as character sequences), undefined, and the
\* functions and objects a property lookup can yield.
JsString(chars) == [t |-> "string", v |-> chars]
JsUndefined == [t |-> "undefined"]
JsFunction(name) == [t |-> "function", name |-> name]
JsObject(name) == [t |-> "object", name |-> name]

\* ToBoolean: undefined and the empty string are falsy; other values here are truthy.
Truthy(x) ==
    CASE x.t = "undefined" -> FALSE
      [] x.t = "string" -> x.v # << >>
      [] OTHER -> TRUE

UpperCaseLetters == <<"A", "B", "C", "D", "E", "F", "G", "H", "I", "J", "K", "L", "M",
                      "N", "O", "P", "Q", "R", "S", "T", "U", "V", "W", "X", "Y", "Z">>
LowerCaseLetters == <<"a", "b", "c", "d", "e", "f", "g", "h", "i", "j", "k", "l", "m",
                      "n", "o", "p", "q", "r", "s", "t", "u", "v", "w", "x", "y", "z">>

\* String.prototype.toLowerCase on the letters A-Z; other characters stay.
ToLowerCase(chars) ==
    [i \in 1..Len(chars) |->
        IF \E k \in DOMAIN UpperCaseLetters : UpperCaseLetters[k] = chars[i]
        THEN LowerCaseLetters[CHOOSE k \in DOMAIN UpperCaseLetters :
                                UpperCaseLetters[k] = chars[i]]
        ELSE chars[i]]

\* x?.toLowerCase(): undefined stays undefined.
OptionalToLowerCase_AsIs(x) == x

OptionalToLowerCase(x) ==
    IF x.t = "undefined" THEN JsUndefined ELSE JsString(ToLowerCase(x.v))

\* The properties every object literal inherits from Object.prototype.
ObjectPrototype ==
    (<<"c", "o", "n", "s", "t", "r", "u", "c", "t", "o", "r">> :> JsFunction("Object")) @@
    (<<"_", "_", "p", "r", "o", "t", "o", "_", "_">> :> JsObject("Object.prototype")) @@
    (<<"t", "o", "S", "t", "r", "i", "n", "g">> :> JsFunction("toString")) @@
    (<<"v", "a", "l", "u", "e", "O", "f">> :> JsFunction("valueOf")) @@
    (<<"h", "a", "s", "O", "w", "n", "P", "r", "o", "p", "e", "r", "t", "y">> :> JsFunction("hasOwnProperty"))

\* object[key] for an object literal: its own property, else the inherited one,
\* else undefined.
GetProperty(object, key) ==
    IF key \in DOMAIN object THEN object[key]
    ELSE IF key \in DOMAIN ObjectPrototype THEN ObjectPrototype[key]
    ELSE JsUndefined

\* Area-based ingredient mappings.
areaIngredientMap ==
    (<<"m", "e", "x", "i", "c", "a", "n">> :> JsString(<<"T", "e", "q", "u", "i", "l", "a">>)) @@
    (<<"i", "t", "a", "l", "i", "a", "n">> :> JsString(<<"C", "a", "m", "p", "a", "r", "i">>)) @@
    (<<"r", "u", "s", "s", "i", "a", "n">> :> JsString(<<"V", "o", "d", "k", "a">>)) @@
    (<<"j", "a", "p", "a", "n", "e", "s", "e">> :> JsString(<<"S", "a", "k", "e">>)) @@
    (<<"c", "h", "i", "n", "e", "s", "e">> :> JsString(<<"B", "a", "i", "j", "i", "u">>)) @@
    (<<"i", "n", "d", "i", "a", "n">> :> JsString(<<"G", "i", "n">>)) @@
    (<<"t", "h", "a", "i">> :> JsString(<<"B", "a", "i", "j", "i", "u">>)) @@
    (<<"v", "i", "e", "t", "n", "a", "m", "e", "s", "e">> :> JsString(<<"B", "a", "i", "j", "i", "u">>)) @@
    (<<"k", "o", "r", "e", "a", "n">> :> JsString(<<"S", "o", "j", "u">>)) @@
    (<<"m", "a", "l", "a", "y", "s", "i", "a", "n">> :> JsString(<<"B", "a", "i", "j", "i", "u">>)) @@
    (<<"f", "i", "l", "i", "p", "i", "n", "o">> :> JsString(<<"B", "a", "i", "j", "i", "u">>)) @@
    (<<"f", "r", "e", "n", "c", "h">> :> JsString(<<"C", "o", "g", "n", "a", "c">>))

\* Category-based ingredient mappings.
categoryIngredientMap ==
    (<<"s", "e", "a", "f", "o", "o", "d">> :> JsString(<<"G", "i", "n">>)) @@
    (<<"d", "e", "s", "s", "e", "r", "t">> :> JsString(<<"B", "r", "a", "n", "d", "y">>)) @@
    (<<"b", "e", "e", "f">> :> JsString(<<"W", "h", "i", "s", "k", "y">>))

Vodka == JsString(<<"V", "o", "d", "k", "a">>)

\* private getIngredientFromMeal(meal: Meal)
getIngredientFromMeal(meal) ==
    LET category == OptionalToLowerCase(meal.category)
        area == OptionalToLowerCase(meal.area)
    IN  IF Truthy(area) /\ Truthy(GetProperty(areaIngredientMap, area.v))
        THEN GetProperty(areaIngredientMap, area.v)
        ELSE IF Truthy(category) /\ Truthy(GetProperty(categoryIngredientMap, category.v))
        THEN GetProperty(categoryIngredientMap, category.v)
        ELSE Vodka

\* The strArea values explored: the mapped cuisines as the meals API spells them,
\* other spellings, unmapped values and names of inherited properties.
AreaInputs ==
    { JsUndefined,
      JsString(<<"M", "e", "x", "i", "c", "a", "n">>),
      JsString(<<"I", "t", "a", "l", "i", "a", "n">>),
      JsString(<<"R", "u", "s", "s", "i", "a", "n">>),
      JsString(<<"J", "a", "p", "a", "n", "e", "s", "e">>),
      JsString(<<"C", "h", "i", "n", "e", "s", "e">>),
      JsString(<<"I", "n", "d", "i", "a", "n">>),
      JsString(<<"T", "h", "a", "i">>),
      JsString(<<"V", "i", "e", "t", "n", "a", "m", "e", "s", "e">>),
      JsString(<<"K", "o", "r", "e", "a", "n">>),
      JsString(<<"M", "a", "l", "a", "y", "s", "i", "a", "n">>),
      JsString(<<"F", "i", "l", "i", "p", "i", "n", "o">>),
      JsString(<<"F", "r", "e", "n", "c", "h">>),
      JsString(<<"i", "t", "a", "l", "i", "a", "n">>),
      JsString(<<"I", "T", "A", "L", "I", "A", "N">>),
      JsString(<<"G", "r", "e", "e", "k">>),
      JsString(<<"S", "e", "a", "f", "o", "o", "d">>),
      JsString(<<"c", "o", "n", "s", "t", "r", "u", "c", "t", "o", "r">>),
      JsString(<<"C", "o", "n", "s", "t", "r", "u", "c", "t", "o", "r">>),
      JsString(<<"t", "o", "S", "t", "r", "i", "n", "g">>),
      JsString(<< >>) }

\* The strCategory values explored.
CategoryInputs ==
    { JsUndefined,
      JsString(<<"S", "e", "a", "f", "o", "o", "d">>),
      JsString(<<"D", "e", "s", "s", "e", "r", "t">>),
      JsString(<<"B", "e", "e", "f">>),
      JsString(<<"b", "e", "e", "f">>),
      JsString(<<"P", "a", "s", "t", "a">>),
      JsString(<<"I", "t", "a", "l", "i", "a", "n">>),
      JsString(<<"c", "o", "n", "s", "t", "r", "u", "c", "t", "o", "r">>),
      JsString(<< >>) }

\* One call of getIngredientFromMeal on a meal the meal service returned.
CallGetIngredientFromMeal ==
    \E area \in AreaInputs, category \in CategoryInputs :
        LET meal == [name |-> "meal", category |-> category, area |-> area]
        IN  /\ pairing' = [op |-> "getIngredientFromMeal", meal |-> meal,
                           result |-> getIngredientFromMeal(meal)]
            /\ UNCHANGED notPairingVars

InitPairing ==
    /\ InitHomeIdle
    /\ InitMessageIdle
    /\ InitRestIdle
    /\ InitCliIdle
    /\ InitMongoIdle
    /\ pairing = NoCall

NextPairing == CallGetIngredientFromMeal

SpecPairing == InitPairing /\ [][NextPairing]_vars

(***************************************************************************)
(* REST API tutorial: MealService and CocktailService                      *)
(***************************************************************************)

\* Most elements an API answer lists.
MaxResults == 2
\* Math.random() is drawn from k / RandomSteps, k in 0 .. RandomSteps - 1.
RandomSteps == 4

JsNull == [t |-> "null"]
JsError(name) == [name |-> name]
JsArray(items) == [t |-> "array", items |-> items]

\* The index rounded up instead of down.
RandomIndex_Ceil(k, length) == (k * length + RandomSteps - 1) \div RandomSteps

\* Math.floor(Math.random() * length), for Math.random() = k / RandomSteps.
RandomIndex(k, length) == (k * length) \div RandomSteps

\* Elements of the meals API's answer (MealApiResponse), as the API spells them.
MealItems ==
    { [strMeal |-> "Pizza with Pepperoni",
       strArea |-> JsString(<<"I", "t", "a", "l", "i", "a", "n">>),
       strCategory |-> JsString(<<"P", "i", "z", "z", "a">>)],
      [strMeal |-> "Lasagne",
       strArea |-> JsString(<<"I", "T", "A", "L", "I", "A", "N">>),
       strCategory |-> JsUndefined],
      [strMeal |-> "Fish pie",
       strArea |-> JsUndefined,
       strCategory |-> JsString(<<"S", "E", "A", "F", "O", "O", "D">>)],
      [strMeal |-> "Moussaka",
       strArea |-> JsString(<<"G", "r", "e", "e", "k">>),
       strCategory |-> JsString(<<"B", "e", "e", "f">>)] }

\* Elements of the cocktails API's answer (CocktailApiResponse).
DrinkItems == { [strDrink |-> "Aperol Spritz"], [strDrink |-> "Negroni"] }

\* What fetch() and response.json() can produce for a list of the given elements:
\* a failed request, a body that is no JSON, or the parsed data whose list is
\* null (no result), an array, or missing.
ApiOutcomes(items) ==
    { [kind |-> "fetchError"], [kind |-> "jsonError"] } \cup
    { [kind |-> "ok", list |-> l] :
        l \in {JsNull, JsUndefined} \cup { JsArray(a) : a \in BoundedSeq(items, MaxResults) } }

\* getRandomMealWithIngredient without try/catch; api is what fetch and json
\* produce for the URL, k the draw of Math.random().
getRandomMealWithIngredient_Unguarded(api, k) ==
    CASE api.kind = "fetchError" -> Throw(JsError("TypeError: fetch failed"))
      [] api.kind = "jsonError" -> Throw(JsError("SyntaxError"))
      [] api.list.t = "null" -> Return(JsNull)
      [] api.list.t = "undefined" -> Throw(JsError("TypeError"))
      [] OTHER ->
            LET index == RandomIndex(k, Len(api.list.items)) + 1
            IN  IF index \notin DOMAIN api.list.items
                THEN Throw(JsError("TypeError"))     \* meal is undefined: meal.strMeal throws
                ELSE LET meal == api.list.items[index]
                     IN  Return([t |-> "object", name |-> meal.strMeal,
                                 category |-> meal.strCategory,
                                 area |-> meal.strArea])

\* getRandomCocktailWithIngredient without try/catch.
getRandomCocktailWithIngredient_Unguarded(api, k) ==
    CASE api.kind = "fetchError" -> Throw(JsError("TypeError: fetch failed"))
      [] api.kind = "jsonError" -> Throw(JsError("SyntaxError"))
      [] api.list.t = "null" -> Return(JsNull)
      [] api.list.t = "undefined" -> Throw(JsError("TypeError"))
      [] OTHER ->
            LET index == RandomIndex(k, Len(api.list.items)) + 1
            IN  IF index \notin DOMAIN api.list.items
                THEN Throw(JsError("TypeError"))     \* cocktail is undefined
                ELSE Return([t |-> "object", name |-> api.list.items[index].strDrink])

\* try { ... } catch (error) { console.error(...); return null; }
TryCatchReturnNull_Rethrow(outcome) == outcome

TryCatchReturnNull(outcome) ==
    IF outcome.kind = "throw" THEN Return(JsNull) ELSE outcome

\* The services with try/catch around the same statements.
getRandomMealWithIngredient_Guarded(api, k) ==
    TryCatchReturnNull(getRandomMealWithIngredient_Unguarded(api, k))

getRandomCocktailWithIngredient_Guarded(api, k) ==
    TryCatchReturnNull(getRandomCocktailWithIngredient_Unguarded(api, k))

getRandomMealWithIngredient(version, api, k) ==
    IF version = "guarded" THEN getRandomMealWithIngredient_Guarded(api, k)
    ELSE getRandomMealWithIngredient_Unguarded(api, k)

getRandomCocktailWithIngredient(version, api, k) ==
    IF version = "guarded" THEN getRandomCocktailWithIngredient_Guarded(api, k)
    ELSE getRandomCocktailWithIngredient_Unguarded(api, k)

(***************************************************************************)
(* REST API tutorial: MealPairingService.getMealPairing and the controller *)
(***************************************************************************)

None == [kind |-> "none"]
NoValue == [t |-> "none"]

Rum == JsString(<<"R", "u", "m">>)

\* createHttpError(code, payload)
createHttpError(code, payload) == [name |-> "HttpError", code |-> code, payload |-> payload]

\* The error of the controller action when nothing is found.
NotFound(ingredient) ==
    Throw(createHttpError(404, [message |-> "No meal found with provided ingredient",
                                ingredient |-> ingredient]))

\* The controller variants of the tutorial: the meal service alone (the cocktail
\* is "Mojito"), the two services (the cocktail is asked for "Rum"), and the
\* pairing service; the last one takes the ingredient from the query, from the
\* URL or from the body.
Applications ==
    { [controller |-> c, source |-> "query", services |-> v] :
        c \in {"mealService", "twoServices"}, v \in {"guarded", "unguarded"} } \cup
    { [controller |-> "pairingService", source |-> src, services |-> v] :
        src \in {"query", "params", "body"}, v \in {"guarded", "unguarded"} }

Ingredients == {"pepperoni", "lettuce"}

\* The request a client sends to the route of the application.
Request(source, ingredient) ==
    [query |-> IF source = "query" THEN [ingredient |-> ingredient] ELSE [ingredient |-> Undefined],
     params |-> IF source = "params" THEN [ingredient |-> ingredient] ELSE [ingredient |-> Undefined],
     body |-> IF source = "body" THEN [ingredient |-> ingredient] ELSE [ingredient |-> Undefined]]

\* const { ingredient } = request.getQuery() / getParams() / getBody()
RequestIngredient_Query(source, request) == request.query.ingredient

RequestIngredient(source, request) ==
    CASE source = "query" -> request.query.ingredient
      [] source = "params" -> request.params.ingredient
      [] source = "body" -> request.body.ingredient

\* The end of MealPairingService.getMealPairing, once the cocktail service answered.
getMealPairing_Result_AlwaysPaired(meal, cocktailOutcome) ==
    IF cocktailOutcome.kind = "throw" THEN cocktailOutcome
    ELSE Return([t |-> "object", meal |-> meal.name, cocktail |-> "Mojito"])

getMealPairing_Result(meal, cocktailOutcome) ==
    IF cocktailOutcome.kind = "throw" THEN cocktailOutcome
    ELSE IF cocktailOutcome.value.t = "null" THEN Return(JsNull)
    ELSE Return([t |-> "object", meal |-> meal.name, cocktail |-> cocktailOutcome.value.name])

\* The end of the controller action on the pairing service's answer.
PairingController_Result(ingredient, pairingOutcome) ==
    IF pairingOutcome.kind = "throw" THEN pairingOutcome
    ELSE IF pairingOutcome.value.t = "null" THEN NotFound(ingredient)
    ELSE Return([meal |-> pairingOutcome.value.meal, cocktail |-> pairingOutcome.value.cocktail])

\* The end of the controller action that uses the meal service alone.
MealController_Result(ingredient, mealOutcome) ==
    IF mealOutcome.kind = "throw" THEN mealOutcome
    ELSE IF mealOutcome.value.t = "null" THEN NotFound(ingredient)
    ELSE Return([meal |-> mealOutcome.value.name, cocktail |-> "Mojito"])

\* The end of the controller action that uses the two services.
TwoServicesController_Result(ingredient, mealOutcome, cocktailOutcome) ==
    IF cocktailOutcome.kind = "throw" THEN cocktailOutcome
    ELSE IF mealOutcome.value.t = "null" \/ cocktailOutcome.value.t = "null"
    THEN NotFound(ingredient)
    ELSE Return([meal |-> mealOutcome.value.name, cocktail |-> cocktailOutcome.value.name])

\* The HTTP response for the outcome of a controller action: the returned value
\* with status 200, the payload of an HTTP error with its code, and a server
\* error for any other exception.
HttpResponse(outcome) ==
    IF outcome.kind = "return" THEN [status |-> 200, body |-> outcome.value]
    ELSE IF outcome.error.name = "HttpError"
    THEN [status |-> outcome.error.code, body |-> outcome.error.payload]
    ELSE [status |-> 500, body |-> outcome.error]

\* The application waiting for a request.
Waiting(app) ==
    [app |-> app, pc |-> "waiting", request |-> None, ingredient |-> Undefined,
     calls |-> << >>, mealApi |-> None, mealOutcome |-> None,
     cocktailQuery |-> NoValue, cocktailApi |-> None, cocktailOutcome |-> None,
     pairingOutcome |-> None, actionOutcome |-> None, response |-> None]

\* The controller action ends with the given outcome and the response is sent.
Answered(r, outcome) ==
    [r EXCEPT !.pc = "answered", !.actionOutcome = outcome, !.response = HttpResponse(outcome)]

\* A request arrives: the action reads the ingredient and asks the meal service
\* (directly or through the pairing service), which awaits the meals API.
ReceiveRequest ==
    /\ restApp.pc \in {"waiting", "answered"}
    /\ \E ingredient \in Ingredients :
            LET request == Request(restApp.app.source, ingredient)
            IN  restApp' = [Waiting(restApp.app) EXCEPT
                                !.pc = "mealService",
                                !.request = request,
                                !.ingredient = RequestIngredient(restApp.app.source, request),
                                !.calls = <<"mealService">>]
    /\ UNCHANGED notRestVars

\* The meals API answers; the meal service returns or throws, and the caller
\* goes on up to its next await or to its end.
MealServiceAnswers ==
    /\ restApp.pc = "mealService"
    /\ \E api \in ApiOutcomes(MealItems), k \in 0..(RandomSteps - 1) :
            LET outcome == getRandomMealWithIngredient(restApp.app.services, api, k)
                r == [restApp EXCEPT !.mealApi = api, !.mealOutcome = outcome]
                askCocktail(query) ==
                    [r EXCEPT !.pc = "cocktailService", !.cocktailQuery = query,
                              !.calls = Append(@, "cocktailService")]
            IN  restApp' =
                    CASE restApp.app.controller = "mealService" ->
                            Answered(r, MealController_Result(restApp.ingredient, outcome))
                      [] restApp.app.controller = "twoServices" ->
                            IF outcome.kind = "throw" THEN Answered(r, outcome)
                            ELSE askCocktail(Rum)
                      [] restApp.app.controller = "pairingService" ->
                            IF outcome.kind = "throw"
                            THEN Answered([r EXCEPT !.pairingOutcome = outcome], outcome)
                            ELSE IF outcome.value.t \in {"null", "undefined"}
                            THEN Answered([r EXCEPT !.pairingOutcome = Return(JsNull)],
                                          PairingController_Result(restApp.ingredient,
                                                                   Return(JsNull)))
                            ELSE askCocktail(getIngredientFromMeal(outcome.value))
    /\ UNCHANGED notRestVars

\* The cocktails API answers; the cocktail service returns or throws, and the
\* caller goes on to its end.
CocktailServiceAnswers ==
    /\ restApp.pc = "cocktailService"
    /\ \E api \in ApiOutcomes(DrinkItems), k \in 0..(RandomSteps - 1) :
            LET outcome == getRandomCocktailWithIngredient(restApp.app.services, api, k)
                r == [restApp EXCEPT !.cocktailApi = api, !.cocktailOutcome = outcome]
            IN  restApp' =
                    IF restApp.app.controller = "twoServices"
                    THEN Answered(r, TwoServicesController_Result(restApp.ingredient,
                                                                  restApp.mealOutcome, outcome))
                    ELSE LET pairing_ == getMealPairing_Result(restApp.mealOutcome.value, outcome)
                         IN  Answered([r EXCEPT !.pairingOutcome = pairing_],
                                      PairingController_Result(restApp.ingredient, pairing_))
    /\ UNCHANGED notRestVars

InitRest ==
    /\ InitHomeIdle
    /\ InitMessageIdle
    /\ InitPairingIdle
    /\ InitCliIdle
    /\ InitMongoIdle
    /\ \E app \in Applications : restApp = Waiting(app)

NextRest == ReceiveRequest \/ MealServiceAnswers \/ CocktailServiceAnswers

SpecRest == InitRest /\ [][NextRest]_vars

(***************************************************************************)
(* CLI tutorial: events, SystemLogger and the listeners of the factory     *)
(***************************************************************************)

\* Most listeners registered for CREATE_HELLO_MESSAGE.
MaxListeners == 3

Digits == <<"0", "1", "2", "3", "4", "5", "6", "7", "8", "9">>

\* new Date().toISOString() at the given millisecond of one second.
ToISOString(ms) ==
    <<"2", "0", "2", "5", "-", "0", "6", "-", "0", "7", "T",
      "1", "7", ":", "4", "0", ":", "4", "3", ".", "0", "0", Digits[ms + 1], "Z">>

\* The two UTF-16 code units of the party popper emoji.
PartyPopper == <<"PARTY_POPPER_HIGH", "PARTY_POPPER_LOW">>

\* String.prototype.substring(start, end) for 0 <= start <= end.
Substring(str, start, end) ==
    SubSeq(str, start + 1, IF end > Len(str) THEN Len(str) ELSE end)

\* The SystemLogger as constructed: fs.openSync gave it a descriptor.
NewSystemLogger == [fd |-> "open", log |-> << >>, errors |-> << >>]

\* SystemLogger.writeLog: fs.writeSync on the descriptor; on a closed descriptor
\* it throws and nothing is written.
writeLog_Twice(logger, time, message) ==
    IF logger.fd = "open"
    THEN [logger EXCEPT !.log = @ \o <<[time |-> time, message |-> message],
                                       [time |-> time, message |-> message]>>]
    ELSE [logger EXCEPT !.errors = Append(@, "EBADF: write")]

writeLog(logger, time, message) ==
    IF logger.fd = "open"
    THEN [logger EXCEPT !.log = Append(@, [time |-> time, message |-> message])]
    ELSE [logger EXCEPT !.errors = Append(@, "EBADF: write")]

\* fs.closeSync on the descriptor.
closeSync(logger) ==
    IF logger.fd = "open"
    THEN [logger EXCEPT !.fd = "closed"]
    ELSE [logger EXCEPT !.errors = Append(@, "EBADF: close")]

\* SystemLogger.handlePreExecute
handlePreExecute(logger, time, event) ==
    writeLog(logger, time,
             [entry |-> "Executing with arguments", process |-> event.process,
              name |-> event.args.name, language |-> event.args.language])

\* SystemLogger.handlePostTerminate: an exception of writeLog leaves the handler
\* before fs.closeSync.
handlePostTerminate(logger, time, event) ==
    LET written == writeLog(logger, time,
                            [entry |-> "Terminated with signal", process |-> event.process,
                             signal |-> event.signal])
    IN  IF written.errors # logger.errors THEN written ELSE closeSync(written)

\* SystemLogger.handleCreateHelloMessage
SystemLogger_handleCreateHelloMessage(logger, time, payload) ==
    writeLog(logger, time,
             [entry |-> "Create Hello Message",
              availableLanguages |-> payload.availableLanguages,
              usedLanguage |-> payload.usedLanguage,
              parameters |-> payload.parameters])

\* CreateHelloMessageEvent.setMessage: writes the message of the writable payload.
setMessage(payload, message) == [payload EXCEPT !.message = message]

\* CreateHelloMessageEvent.getMessage
getMessage(payload) == payload.message

\* MessageDecorator.handleCreateHelloMessage: prefixes the message with a timestamp.
MessageDecorator_handleCreateHelloMessage(payload, time) ==
    LET message == getMessage(payload)
    IN  setMessage(payload, <<"[">> \o ToISOString(time) \o <<"]", " ">> \o message)

\* EmojiDecorator.handleCreateHelloMessage
EmojiDecorator_handleCreateHelloMessage(payload) ==
    LET message == getMessage(payload)
    IN  setMessage(payload, PartyPopper \o <<" ">> \o message \o <<" ">> \o PartyPopper)

\* MessageLengthLimiter.handleCreateHelloMessage
MessageLengthLimiter_handleCreateHelloMessage_CutAtLimit(payload) ==
    LET message == getMessage(payload)
    IN  IF Len(message) > 50
        THEN setMessage(payload, Substring(message, 0, 50) \o <<".", ".", ".">>)
        ELSE payload

MessageLengthLimiter_handleCreateHelloMessage(payload) ==
    LET message == getMessage(payload)
    IN  IF Len(message) > 50
        THEN setMessage(payload, Substring(message, 0, 47) \o <<".", ".", ".">>)
        ELSE payload

\* The steps of the tutorial: the logger of process events alone, the factory
\* that emits a read-only event, and the factory that emits a writable event.
CliStages == {"lifecycle", "readonly", "writable"}

\* The listeners of CREATE_HELLO_MESSAGE, in the order the event manager calls
\* them; each service is registered once.
ListenerLists(stage) ==
    IF stage = "writable"
    THEN { l \in BoundedSeq({"SystemLogger", "MessageDecorator", "EmojiDecorator",
                             "MessageLengthLimiter"}, MaxListeners) :
             \A i, j \in DOMAIN l : i # j => l[i] # l[j] }
    ELSE { << >>, <<"SystemLogger">> }

CliNames ==
    { <<"E", "m", "m", "a">>,
      <<"J", "e", "a", "n", "-", "C", "h", "r", "i", "s", "t", "o", "p", "h", "e">>,
      <<"M", "a", "r", "i", "e", "-", "A", "n", "t", "o", "i", "n", "e", "t", "t", "e">>,
      <<"A", "l", "e", "x", "a", "n", "d", "r", "i", "n", "a", " ",
        "V", "i", "c", "t", "o", "r", "i", "a">> }

\* The messages configurations: the tutorial's and one without English.
CliConfigs == { DocMessages, [l \in {"fr", "es"} |-> DocMessages[l]] }

IsRegistered(listener) == \E i \in DOMAIN cli.listeners : cli.listeners[i] = listener

\* The application before the process manager runs say-hello.
NewCli(stage, msgs, listeners, language, name) ==
    [stage |-> stage, messages |-> msgs, listeners |-> listeners,
     args |-> [language |-> language, name |-> name],
     pc |-> "start", clock |-> 0, logger |-> NewSystemLogger,
     base |-> None, event |-> None, emitted |-> << >>, queue |-> << >>,
     handled |-> << >>, result |-> None, stdout |-> << >>, executed |-> None]

\* PROCESS_EVENTS.PRE_EXECUTE, fired before the process executes.
PreExecute ==
    /\ cli.pc = "start"
    /\ cli' = IF IsRegistered("SystemLogger")
              THEN [cli EXCEPT !.pc = "preExecuted",
                               !.clock = @ + 1,
                               !.logger = handlePreExecute(@, cli.clock,
                                              [process |-> "say-hello", args |-> cli.args])]
              ELSE [cli EXCEPT !.pc = "preExecuted"]
    /\ UNCHANGED notCliVars

\* new CreateHelloMessageEvent({...}) of the factory in use.
CreateHelloMessageEvent(msgs, language, name, message, stage) ==
    LET usedLanguage == IF language \in DOMAIN msgs THEN language ELSE "en"
    IN  IF stage = "writable"
        THEN [availableLanguages |-> DOMAIN msgs, usedLanguage |-> usedLanguage,
              parameters |-> [name |-> name], message |-> message]
        ELSE [availableLanguages |-> DOMAIN msgs, usedLanguage |-> usedLanguage,
              parameters |-> [name |-> name]]

\* MainProcess.execute up to the await of eventManager.emit in createHelloMessage;
\* the factory without events runs execute to its end.
ExecuteStart ==
    /\ cli.pc = "preExecuted"
    /\ LET base == CreateHelloMessageConfig(cli.messages, cli.args.language, cli.args.name)
       IN  cli' =
             IF base.kind = "throw"
             THEN [cli EXCEPT !.pc = "executed", !.base = base, !.result = base,
                              !.executed = base]
             ELSE IF cli.stage = "lifecycle"
             THEN [cli EXCEPT !.pc = "executed", !.base = base, !.result = base,
                              !.stdout = Append(@, base.value), !.executed = Return(TRUE)]
             ELSE LET event == CreateHelloMessageEvent(cli.messages, cli.args.language,
                                                       cli.args.name, base.value, cli.stage)
                  IN  [cli EXCEPT !.pc = "emitting", !.base = base, !.event = event,
                                  !.emitted = Append(@, event), !.queue = cli.listeners]
    /\ UNCHANGED notCliVars

\* The event manager calls the next listener of CREATE_HELLO_MESSAGE with the
\* event; a handler that throws makes emit, and so createHelloMessage and
\* execute, fail.
DeliverCreateHelloMessage ==
    /\ cli.pc = "emitting"
    /\ cli.queue # << >>
    /\ LET listener == Head(cli.queue)
           logger == IF listener = "SystemLogger"
                     THEN SystemLogger_handleCreateHelloMessage(cli.logger, cli.clock, cli.event)
                     ELSE cli.logger
           event == CASE listener = "MessageDecorator" ->
                            MessageDecorator_handleCreateHelloMessage(cli.event, cli.clock)
                      [] listener = "EmojiDecorator" ->
                            EmojiDecorator_handleCreateHelloMessage(cli.event)
                      [] listener = "MessageLengthLimiter" ->
                            MessageLengthLimiter_handleCreateHelloMessage(cli.event)
                      [] OTHER -> cli.event
           clock == IF listener \in {"SystemLogger", "MessageDecorator"}
                    THEN cli.clock + 1 ELSE cli.clock
           after == [cli EXCEPT !.logger = logger, !.event = event, !.clock = clock,
                                !.queue = Tail(@),
                                !.handled = Append(@, [listener |-> listener,
                                                       saw |-> cli.event,
                                                       left |-> event])]
       IN  cli' = IF logger.errors # cli.logger.errors
                  THEN [after EXCEPT !.pc = "executed", !.queue = << >>,
                                     !.result = Throw("EBADF"), !.executed = Throw("EBADF")]
                  ELSE after
    /\ UNCHANGED notCliVars

\* emit is over: createHelloMessage returns, execute writes the message and
\* returns true.
ExecuteResume ==
    /\ cli.pc = "emitting"
    /\ cli.queue = << >>
    /\ LET message == IF cli.stage = "writable" THEN getMessage(cli.event)
                      ELSE cli.base.value
       IN  cli' = [cli EXCEPT !.pc = "executed", !.result = Return(message),
                              !.stdout = Append(@, message), !.executed = Return(TRUE)]
    /\ UNCHANGED notCliVars

\* PROCESS_EVENTS.POST_TERMINATE, fired after the process completed.
PostTerminate ==
    /\ cli.pc = "executed"
    /\ LET signal == IF cli.executed = Return(TRUE) THEN 0 ELSE 1
       IN  cli' = IF IsRegistered("SystemLogger")
                  THEN [cli EXCEPT !.pc = "terminated",
                                   !.clock = @ + 1,
                                   !.logger = handlePostTerminate(@, cli.clock,
                                                  [process |-> "say-hello", signal |-> signal])]
                  ELSE [cli EXCEPT !.pc = "terminated"]
    /\ UNCHANGED notCliVars

InitCli ==
    /\ InitHomeIdle
    /\ InitMessageIdle
    /\ InitPairingIdle
    /\ InitRestIdle
    /\ InitMongoIdle
    /\ \E stage \in CliStages, msgs \in CliConfigs, language \in Languages, name \in CliNames :
         \E listeners \in ListenerLists(stage) :
            cli = NewCli(stage, msgs, listeners, language, name)

NextCli ==
    \/ PreExecute
    \/ ExecuteStart
    \/ DeliverCreateHelloMessage
    \/ ExecuteResume
    \/ PostTerminate

SpecCli == InitCli /\ [][NextCli]_vars

(***************************************************************************)
(* Module tutorial: MongoDBModule and MongoDBService                       *)
(***************************************************************************)

\* Most documents a collection holds.
MaxDocuments == 2

JsonString(v) == [t |-> "string", v |-> v]
JsonNumber(v) == [t |-> "number", v |-> v]

\* The JSON schema of the MongoDB configuration.
schema ==
    [type |-> "object",
     properties |-> [host |-> "string", port |-> "number", username |-> "string",
                     password |-> "string", database |-> "string"],
     additionalProperties |-> FALSE,
     required |-> {"host", "port", "username", "password", "database"}]

\* The validation without the additionalProperties keyword.
jsonSchemaValid_AdditionalAllowed(config) ==
    /\ schema.required \subseteq DOMAIN config
    /\ \A key \in DOMAIN config \cap DOMAIN schema.properties :
            config[key].t = schema.properties[key]

\* validators.jsonSchema(schema) on a configuration object.
jsonSchemaValid(config) ==
    /\ schema.required \subseteq DOMAIN config
    /\ schema.additionalProperties \/ DOMAIN config \subseteq DOMAIN schema.properties
    /\ \A key \in DOMAIN config \cap DOMAIN schema.properties :
            config[key].t = schema.properties[key]

\* config/mongodb.yaml of the test scenario.
TestMongoConfig ==
    [host |-> JsonString("localhost"), port |-> JsonNumber(27017),
     username |-> JsonString("admin"), password |-> JsonString("admin"),
     database |-> JsonString("test")]

\* The configuration files explored: the scenario's, another database, another
\* server, and files with a missing, a wrongly typed, an additional and a
\* misnamed property.
MongoConfigs ==
    { TestMongoConfig,
      [TestMongoConfig EXCEPT !.database = JsonString("prod")],
      [TestMongoConfig EXCEPT !.host = JsonString("db.internal"), !.port = JsonNumber(27018)],
      [key \in DOMAIN TestMongoConfig \ {"password"} |-> TestMongoConfig[key]],
      [TestMongoConfig EXCEPT !.port = JsonString("27017")],
      [TestMongoConfig EXCEPT !.host = JsonNumber(127)],
      [key \in DOMAIN TestMongoConfig \cup {"replicaSet"} |->
          IF key = "replicaSet" THEN JsonString("rs0") ELSE TestMongoConfig[key]],
      [key \in (DOMAIN TestMongoConfig \ {"username"}) \cup {"user"} |->
          IF key = "user" THEN JsonString("admin") ELSE TestMongoConfig[key]] }

\* The processes run: TestProcess, a process that calls MyService.findDocuments,
\* and a process that does not use the database.
MongoProcesses == {"test-process", "my-process", "other-process"}

\* The collection a process reads, if any.
CollectionOf(process) ==
    CASE process = "test-process" -> "test_collection"
      [] process = "my-process" -> "my_collection"
      [] OTHER -> "none"

\* What collection.find({}).toArray() can yield.
FindOutcomes ==
    { Return(docs) : docs \in BoundedSeq({[name |-> "test"], [name |-> "other"]}, MaxDocuments) } \cup
    { Throw("MongoServerError") }

\* The application before its lifecycle starts: no service is instantiated yet.
NewMongoApp(config, process) ==
    [config |-> config, process |-> process, pc |-> "init", parameters |-> None,
     client |-> "none", url |-> None, history |-> << >>, collection |-> None,
     output |-> << >>, executed |-> None]

\* CONFIG_EVENTS.LOAD: loadConfig(CONFIG_NAME, validators.jsonSchema(schema))
\* registers the configuration as the parameter "mongodb", or fails the load.
LoadConfig ==
    /\ mongo.pc = "init"
    /\ mongo' = IF jsonSchemaValid(mongo.config)
                THEN [mongo EXCEPT !.pc = "preRun", !.parameters = mongo.config,
                                   !.history = Append(@, "config:loaded")]
                ELSE [mongo EXCEPT !.pc = "failed",
                                   !.history = Append(@, "config:invalid")]
    /\ UNCHANGED notMongoVars

\* new MongoClient(`mongodb://${host}:${port}`, { auth })
MongoClientOf(config) ==
    [url |-> [protocol |-> "mongodb", host |-> config.host.v, port |-> config.port.v],
     auth |-> [username |-> config.username.v, password |-> config.password.v]]

\* The PRE_RUN handler up to its await: the container builds the service from
\* the parameter "mongodb" and connect() is called.
PreRunHandler_NotAwaited(m) ==
    [m EXCEPT !.pc = "run", !.client = "connecting", !.url = MongoClientOf(m.parameters),
              !.history = Append(@, "connect:called")]

PreRunHandler(m) ==
    [m EXCEPT !.pc = "awaitConnect", !.client = "connecting",
              !.url = MongoClientOf(m.parameters),
              !.history = Append(@, "connect:called")]

\* RUN_EVENTS.PRE_RUN
PreRun ==
    /\ mongo.pc = "preRun"
    /\ mongo' = PreRunHandler(mongo)
    /\ UNCHANGED notMongoVars

\* client.connect() settles; the handler awaiting it ends with it.
ConnectSettles ==
    /\ mongo.client = "connecting"
    /\ \E connected \in BOOLEAN :
         mongo' = IF connected
                  THEN [mongo EXCEPT !.client = "connected",
                                     !.pc = IF @ = "awaitConnect" THEN "run" ELSE @,
                                     !.history = Append(@, "connect:done")]
                  ELSE [mongo EXCEPT !.client = "failed",
                                     !.pc = IF @ = "awaitConnect" THEN "failed" ELSE @,
                                     !.history = Append(@, "connect:failed")]
    /\ UNCHANGED notMongoVars

\* MongoDBService.getCollection(name)
getCollection(m, name) ==
    [database |-> m.parameters.database.v, name |-> name, client |-> m.client]

\* The process executes: TestProcess.execute and MyService.findDocuments get
\* their collection and await find({}).toArray().
ExecuteProcess ==
    /\ mongo.pc = "run"
    /\ mongo' = IF CollectionOf(mongo.process) = "none"
                THEN [mongo EXCEPT !.pc = "postRun", !.executed = Return(TRUE)]
                ELSE [mongo EXCEPT !.pc = "awaitFind",
                                   !.collection = getCollection(mongo, CollectionOf(mongo.process)),
                                   !.history = Append(@, "getCollection")]
    /\ UNCHANGED notMongoVars

\* find({}).toArray() settles: the data is printed and execute returns true, or
\* execute fails.
FindSettles ==
    /\ mongo.pc = "awaitFind"
    /\ \E outcome \in FindOutcomes :
         mongo' = IF outcome.kind = "return"
                  THEN [mongo EXCEPT !.pc = "postRun", !.output = Append(@, outcome.value),
                                     !.executed = Return(TRUE),
                                     !.history = Append(@, "execute:done")]
                  ELSE [mongo EXCEPT !.pc = "postRun", !.executed = outcome,
                                     !.history = Append(@, "execute:done")]
    /\ UNCHANGED notMongoVars

\* RUN_EVENTS.POST_RUN: close() is called and awaited.
PostRun ==
    /\ mongo.pc = "postRun"
    /\ mongo' = [mongo EXCEPT !.pc = "awaitClose", !.client = "closing",
                              !.history = Append(@, "close:called")]
    /\ UNCHANGED notMongoVars

\* client.close() settles.
CloseSettles ==
    /\ mongo.pc = "awaitClose"
    /\ mongo' = [mongo EXCEPT !.pc = "stopped", !.client = "closed",
                              !.history = Append(@, "close:done")]
    /\ UNCHANGED notMongoVars

InitMongo ==
    /\ InitHomeIdle
    /\ InitMessageIdle
    /\ InitPairingIdle
    /\ InitRestIdle
    /\ InitCliIdle
    /\ \E config \in MongoConfigs, process \in MongoProcesses :
            mongo = NewMongoApp(config, process)

NextMongo ==
    \/ LoadConfig
    \/ PreRun
    \/ ConnectSettles
    \/ ExecuteProcess
    \/ FindSettles
    \/ PostRun
    \/ CloseSettles

SpecMongo == InitMongo /\ [][NextMongo]_vars

(***************************************************************************)
(* CLI tutorial: the first interactive MainProcess (inline messages)       *)
(***************************************************************************)

JsBoolean(b) == [t |-> "boolean", v |-> b]

\* The messages object literal of execute: language -> template function.
InlineMessages ==
    (<<"e", "n">> :> JsFunction("en")) @@ (<<"f", "r">> :> JsFunction("fr"))

\* The --language values explored: the option is a free string whose default
\* is "en"; an option given without a value is the empty string.
InlineLanguages ==
    { <<"e", "n">>, <<"f", "r">>, <<"d", "e">>, << >> } \cup DOMAIN ObjectPrototype

\* f.call(messages, name) for the functions messages[language] can be: a
\* template function, or a function inherited from Object.prototype.
CallOnMessages(f, name) ==
    CASE f.name = "en" -> JsString(<<"H", "e", "l", "l", "o", ",", " ">> \o name \o <<"!">>)
      [] f.name = "fr" -> JsString(<<"B", "o", "n", "j", "o", "u", "r", " ">> \o name \o <<" ", "!">>)
      [] f.name = "Object" -> [t |-> "object", name |-> "String", v |-> name]
      [] f.name = "toString" ->
            JsString(<<"[", "o", "b", "j", "e", "c", "t", " ", "O", "b", "j", "e", "c", "t", "]">>)
      [] f.name = "valueOf" -> JsObject("messages")
      [] f.name = "hasOwnProperty" -> JsBoolean(name \in DOMAIN InlineMessages)

\* messages[language](name): calling a value that is not a function throws a
\* TypeError.
MessagesLanguageName(language, name) ==
    LET f == GetProperty(InlineMessages, language)
    IN  IF f.t = "function" THEN Return(CallOnMessages(f, name))
        ELSE Throw(JsError("TypeError"))

\* process.stdout.write(chunk): a chunk that is not a string (or a buffer)
\* throws a TypeError (ERR_INVALID_ARG_TYPE) and writes nothing.
StdoutWrite(chunk) ==
    IF chunk.t = "string" THEN Return(<<chunk.v>>) ELSE Throw(JsError("TypeError"))

\* MainProcess.execute(args) of the first interactive version.
ExecuteInline ==
    \E language \in InlineLanguages, name \in Names :
        LET message == MessagesLanguageName(language, name)
            written == IF message.kind = "throw" THEN message ELSE StdoutWrite(message.value)
        IN  /\ call' = [op |-> "executeInline", language |-> language, name |-> name,
                        result |-> IF written.kind = "throw" THEN written ELSE Return(TRUE),
                        writes |-> IF written.kind = "throw" THEN << >> ELSE written.value]
            /\ UNCHANGED <<factory, messages>>
            /\ UNCHANGED notMessageVars

InitInline ==
    /\ InitHomeIdle
    /\ InitPairingIdle
    /\ InitRestIdle
    /\ InitCliIdle
    /\ InitMongoIdle
    /\ factory = "inline"
    /\ messages = << >>
    /\ call = NoCall

NextInline == ExecuteInline

SpecInline == InitInline /\ [][NextInline]_vars

(***************************************************************************)
(* CLI tutorial: one SystemLogger instance and the events delivered to it  *)
(***************************************************************************)

\* Most events delivered to the SystemLogger instance.
MaxEvents == 4

\* The instance after its constructor, before any event.
NewListener == [stage |-> "listener", logger |-> NewSystemLogger, clock |-> 0,
                delivered |-> << >>]

\* The event manager calls handlePreExecute of the instance.
EmitPreExecute ==
    /\ Len(cli.delivered) < MaxEvents
    /\ cli' = [cli EXCEPT !.logger = handlePreExecute(@, cli.clock,
                                         [process |-> "say-hello",
                                          args |-> [language |-> "en", name |-> "Emma"]]),
                          !.clock = @ + 1,
                          !.delivered = Append(@, "PRE_EXECUTE")]
    /\ UNCHANGED notCliVars

\* The event manager calls handleCreateHelloMessage of the instance.
EmitCreateHelloMessage ==
    /\ Len(cli.delivered) < MaxEvents
    /\ cli' = [cli EXCEPT !.logger = SystemLogger_handleCreateHelloMessage(@, cli.clock,
                                         CreateHelloMessageEvent(DocMessages, "en", "Emma",
                                                                 << >>, "readonly")),
                          !.clock = @ + 1,
                          !.delivered = Append(@, "CREATE_HELLO_MESSAGE")]
    /\ UNCHANGED notCliVars

\* The event manager calls handlePostTerminate of the instance.
EmitPostTerminate ==
    /\ Len(cli.delivered) < MaxEvents
    /\ cli' = [cli EXCEPT !.logger = handlePostTerminate(@, cli.clock,
                                         [process |-> "say-hello", signal |-> 0]),
                          !.clock = @ + 1,
                          !.delivered = Append(@, "POST_TERMINATE")]
    /\ UNCHANGED notCliVars

InitListener ==
    /\ InitHomeIdle
    /\ InitMessageIdle
    /\ InitPairingIdle
    /\ InitRestIdle
    /\ InitMongoIdle
    /\ cli = NewListener

NextListener ==
    \/ EmitPreExecute
    \/ EmitCreateHelloMessage
    \/ EmitPostTerminate

SpecListener == InitListener /\ [][NextListener]_vars

(***************************************************************************)
(* Homepage claims                                                         *)
(***************************************************************************)

\* The HomepageFeatures section inside a recorded render.
FeaturesOf(r) ==
    IF r.component = "Home" THEN r.output.children[2].children[1] ELSE r.output

\* The Feature elements of the row of a HomepageFeatures section.
CellsOf(section) == section.children[1].children[1].children

\* The parts a cell shows, top to bottom.
ShownParts(cell) ==
    LET top == cell.children[1].children
        bottom == cell.children[2].children
    IN  top \o bottom

\* C1: every render of the feature section holds exactly N Feature cells for a
\* FeatureList of length N, and the i-th cell is built from the i-th item
\* (same title, icon and description).
C1_CellsInInputOrder ==
    \A k \in DOMAIN rendered :
        LET cells == CellsOf(FeaturesOf(rendered[k]))
        IN  /\ Len(cells) = Len(featureList)
            /\ \A i \in 1..Len(featureList) :
                  /\ cells[i].type = "Feature"
                  /\ cells[i].props = featureList[i]
                  /\ \E p \in DOMAIN ShownParts(cells[i].output) :
                        /\ ShownParts(cells[i].output)[p].type = "Svg"
                        /\ ShownParts(cells[i].output)[p].component = featureList[i].Svg
                  /\ \E p \in DOMAIN ShownParts(cells[i].output) :
                        /\ ShownParts(cells[i].output)[p].type = "Heading"
                        /\ ShownParts(cells[i].output)[p].text = featureList[i].title
                  /\ \E p \in DOMAIN ShownParts(cells[i].output) :
                        /\ ShownParts(cells[i].output)[p].type = "p"
                        /\ ShownParts(cells[i].output)[p].text = featureList[i].description

\* A render of the source's three-item list, whose items differ pairwise.
C1_Witness ==
    /\ featureList = SourceFeatureList
    /\ \E k \in DOMAIN rendered : rendered[k].component = "HomepageFeatures"

C3_CellLayout ==
    \A k \in DOMAIN rendered :
        LET cells == CellsOf(FeaturesOf(rendered[k]))
        IN  \A i \in DOMAIN cells :
              LET cell == cells[i].output
                  parts == ShownParts(cell)
              IN  /\ cell.type = "div"
                  /\ cell.className = <<"col col--4">>
                  /\ Len(parts) = 3
                  /\ parts[1].type = "Svg"
                  /\ parts[1].component = cells[i].props.Svg
                  /\ parts[2].type = "Heading"
                  /\ parts[2].as = "h3"
                  /\ parts[2].text = cells[i].props.title
                  /\ parts[3].type = "p"
                  /\ parts[3].text = cells[i].props.description

\* A render that produced MaxItems cells.
C3_Witness ==
    \E k \in DOMAIN rendered : Len(CellsOf(FeaturesOf(rendered[k]))) = MaxItems

\* C4: no render changes FeatureList (length, items, order) or any other state
\* than the record of what was rendered.
C4_ListImmutable ==
    [][/\ featureList' = featureList
       /\ siteConfig' = siteConfig
       /\ notHomeVars' = notHomeVars]_vars

\* Both components have rendered a list whose order matters.
C4_Witness ==
    /\ featureList = Reverse(SourceFeatureList)
    /\ \E j, k \in DOMAIN rendered :
          rendered[j].component = "Home" /\ rendered[k].component = "HomepageFeatures"

(***************************************************************************)
(* MessageFactory and MainProcess claims                                   *)
(***************************************************************************)

\* C6: for a language that is a key of the injected messages and any name,
\* createHelloMessage returns that language's template with the first '{name}'
\* replaced by the name itself.
C6_PlaceholderReplacedByName ==
    (factory = "config" /\ call.op = "createHelloMessage"
        /\ call.language \in DOMAIN messages)
    => call.result = Return(StringReplace_Literal(
                        messages[call.language].helloMessage, Placeholder, call.name))

\* C7: for a language that is not a key of the messages map, createHelloMessage
\* yields what createHelloMessage("en", name) yields, which is the English
\* greeting whenever English is available; hard-coded and injected versions alike.
C7_FallbackToEnglish ==
    (call.op = "createHelloMessage" /\ call.language \notin AvailableLanguages)
    => /\ call.result = CreateHelloMessage("en", call.name)
       /\ "en" \in AvailableLanguages
            => /\ call.result.kind = "return"
               /\ IndexOf(call.result.value, <<"H", "e", "l", "l", "o", ",", " ">>) = 0

\* An unsupported language was answered in English by the injected factory.
C7_Witness ==
    /\ factory = "config"
    /\ call.op = "createHelloMessage"
    /\ call.language = "de"
    /\ call.name = <<"J">>
    /\ call.result = Return(<<"H", "e", "l", "l", "o", ",", " ", "J", "!">>)

\* C8: createHelloMessage returns a message and never throws, whatever the
\* language, the name and the injected messages configuration.
C8_NeverThrows ==
    call.op = "createHelloMessage" => call.result.kind = "return"

\* C9: execute writes exactly the string createHelloMessage produces for its
\* arguments, once, and returns true.
C9_ExecuteWritesMessageOnce ==
    call.op = "execute"
    => LET message == CreateHelloMessage(call.language, call.name)
       IN  /\ message.kind = "return"
           /\ call.writes = <<message.value>>
           /\ call.result = Return(TRUE)

(***************************************************************************)
(* MealPairingService claims                                               *)
(***************************************************************************)

\* C10: the pairing rules have strict priority area > category > default: the
\* spirit of the (lower-cased) area when it is a key of the area map, else the
\* spirit of the (lower-cased) category when it is a key of the category map,
\* else Vodka.
C10_AreaThenCategoryThenVodka ==
    pairing.op = "getIngredientFromMeal"
    => LET area == OptionalToLowerCase(pairing.meal.area)
           category == OptionalToLowerCase(pairing.meal.category)
       IN  pairing.result =
             IF area.t = "string" /\ area.v \in DOMAIN areaIngredientMap
             THEN areaIngredientMap[area.v]
             ELSE IF category.t = "string" /\ category.v \in DOMAIN categoryIngredientMap
             THEN categoryIngredientMap[category.v]
             ELSE Vodka

(***************************************************************************)
(* REST API claims                                                         *)
(***************************************************************************)

\* The element of the meals API's answer the meal service built its meal from.
PickedMeals ==
    { m \in MealItems :
        /\ restApp.mealApi.kind = "ok"
        /\ restApp.mealApi.list.t = "array"
        /\ \E i \in DOMAIN restApp.mealApi.list.items : restApp.mealApi.list.items[i] = m
        /\ restApp.mealOutcome = Return([t |-> "object", name |-> m.strMeal,
                                         category |-> m.strCategory, area |-> m.strArea]) }

\* C11: area and category are matched case-insensitively and the derived
\* spirit is what the cocktail service is asked for: with the pairing service,
\* a meal whose area, lower-cased, is a key of the area map is paired with that
\* key's spirit, a meal without area whose category, lower-cased, is a key of the
\* category map with that key's spirit, and a meal of area "Italian" and
\* category "Pizza" with "Campari"; when the cocktail service then returns a
\* drink, the endpoint answers 200 with {meal: strMeal, cocktail: strDrink}.
C11_DerivedSpiritIsQueried ==
    (restApp.app.controller = "pairingService" /\ restApp.cocktailQuery # NoValue)
    => /\ PickedMeals # {}
       /\ restApp.calls = <<"mealService", "cocktailService">>
       /\ \A m \in PickedMeals :
            /\ (m.strArea.t = "string" /\ ToLowerCase(m.strArea.v) \in DOMAIN areaIngredientMap)
                => restApp.cocktailQuery = areaIngredientMap[ToLowerCase(m.strArea.v)]
            /\ (/\ m.strArea.t = "undefined"
                /\ m.strCategory.t = "string"
                /\ ToLowerCase(m.strCategory.v) \in DOMAIN categoryIngredientMap)
                => restApp.cocktailQuery = categoryIngredientMap[ToLowerCase(m.strCategory.v)]
            /\ (/\ m.strArea = JsString(<<"I", "t", "a", "l", "i", "a", "n">>)
                /\ m.strCategory = JsString(<<"P", "i", "z", "z", "a">>))
                => restApp.cocktailQuery = JsString(<<"C", "a", "m", "p", "a", "r", "i">>)
            /\ (/\ restApp.cocktailApi.kind = "ok"
                /\ restApp.cocktailApi.list.t = "array"
                /\ restApp.cocktailOutcome.kind = "return"
                /\ restApp.cocktailOutcome.value.t = "object")
                => /\ restApp.response.status = 200
                   /\ restApp.response.body.meal = m.strMeal
                   /\ \E j \in DOMAIN restApp.cocktailApi.list.items :
                        restApp.response.body =
                            [meal |-> m.strMeal,
                             cocktail |-> restApp.cocktailApi.list.items[j].strDrink]

\* A request for pepperoni answered with the Italian pizza and the drink the
\* cocktails API lists for Campari.
C11_Witness ==
    /\ restApp.app.controller = "pairingService"
    /\ restApp.ingredient = "pepperoni"
    /\ restApp.mealOutcome = Return([t |-> "object", name |-> "Pizza with Pepperoni",
                                     category |-> JsString(<<"P", "i", "z", "z", "a">>),
                                     area |-> JsString(<<"I", "t", "a", "l", "i", "a", "n">>)])
    /\ restApp.cocktailQuery = JsString(<<"C", "a", "m", "p", "a", "r", "i">>)
    /\ restApp.cocktailApi = [kind |-> "ok", list |-> JsArray(<<[strDrink |-> "Aperol Spritz"]>>)]
    /\ restApp.response = [status |-> 200,
                           body |-> [meal |-> "Pizza with Pepperoni",
                                     cocktail |-> "Aperol Spritz"]]

\* C12: getMealPairing asks the meal service first and asks the cocktail
\* service only after the meal service returned a meal, with the ingredient
\* derived from that meal; when the meal is null the cocktail service is never
\* called; when getMealPairing returns, it returns null if and only if one of the
\* two services returned null, and {meal: meal.name, cocktail: cocktail.name}
\* otherwise.
C12_MealThenCocktail ==
    (restApp.app.controller = "pairingService" /\ restApp.pc # "waiting")
    => LET mealNull == restApp.mealOutcome = Return(JsNull)
           cocktailNull == restApp.cocktailOutcome = Return(JsNull)
           mealFound == restApp.mealOutcome.kind = "return" /\ ~mealNull
           cocktailFound == restApp.cocktailOutcome.kind = "return" /\ ~cocktailNull
       IN  /\ restApp.calls \in {<<"mealService">>, <<"mealService", "cocktailService">>}
           /\ (restApp.pc = "mealService") =>
                (restApp.calls = <<"mealService">> /\ restApp.mealOutcome = None)
           /\ ("cocktailService" \in {restApp.calls[i] : i \in DOMAIN restApp.calls})
                <=> mealFound
           /\ mealFound => restApp.cocktailQuery = getIngredientFromMeal(restApp.mealOutcome.value)
           /\ ~mealFound => (restApp.cocktailQuery = NoValue /\ restApp.cocktailApi = None)
           /\ (mealNull \/ cocktailNull) => restApp.pairingOutcome = Return(JsNull)
           /\ restApp.pairingOutcome = Return(JsNull) => (mealNull \/ cocktailNull)
           /\ (mealFound /\ cocktailFound)
                => restApp.pairingOutcome =
                     Return([t |-> "object", meal |-> restApp.mealOutcome.value.name,
                             cocktail |-> restApp.cocktailOutcome.value.name])
           /\ restApp.pairingOutcome.kind = "return"
                => (mealNull \/ cocktailNull \/ (mealFound /\ cocktailFound))

\* The meal service returned a meal and the cocktail service, asked next,
\* returned null: so did getMealPairing.
C12_Witness ==
    /\ restApp.app.controller = "pairingService"
    /\ restApp.calls = <<"mealService", "cocktailService">>
    /\ restApp.mealOutcome.kind = "return"
    /\ restApp.mealOutcome.value.t = "object"
    /\ restApp.cocktailOutcome = Return(JsNull)
    /\ restApp.pairingOutcome = Return(JsNull)

\* The ingredient the client put in the request, where the route expects it.
RequestedIngredient ==
    CASE restApp.app.source = "query" -> restApp.request.query.ingredient
      [] restApp.app.source = "params" -> restApp.request.params.ingredient
      [] restApp.app.source = "body" -> restApp.request.body.ingredient

\* C13: in every variant of the controller (meal service, two services, pairing
\* service; ingredient in the query, in the URL or in the body), an action in
\* which every consulted service returned answers 404 with {message: 'No meal
\* found with provided ingredient', ingredient: the requested ingredient} exactly
\* when the meal service, the cocktail service or the pairing service returned
\* null, and otherwise returns {meal, cocktail}; the error is the same whichever
\* of them returned null, and no other case answers 404.
C13_NotFoundExactlyWhenNoPairing ==
    restApp.pc = "answered"
    => LET mealNull == restApp.mealOutcome = Return(JsNull)
           cocktailNull == restApp.cocktailOutcome = Return(JsNull)
           pairingNull == restApp.pairingOutcome = Return(JsNull)
           noPairing == mealNull \/ cocktailNull \/ pairingNull
           allReturned ==
               /\ restApp.mealOutcome.kind = "return"
               /\ restApp.cocktailOutcome.kind \in {"none", "return"}
           notFound ==
               [status |-> 404,
                body |-> [message |-> "No meal found with provided ingredient",
                          ingredient |-> RequestedIngredient]]
       IN  /\ RequestedIngredient \in Ingredients
           /\ restApp.response.status = 404 => (noPairing /\ restApp.response = notFound)
           /\ (allReturned /\ noPairing) => restApp.response = notFound
           /\ (allReturned /\ ~noPairing)
                => /\ restApp.response.status = 200
                   /\ restApp.actionOutcome.kind = "return"
                   /\ restApp.response.body.meal = restApp.mealOutcome.value.name
                   /\ restApp.response.body.cocktail =
                        IF restApp.app.controller = "mealService" THEN "Mojito"
                        ELSE restApp.cocktailOutcome.value.name
           /\ restApp.app.services = "guarded" => allReturned

\* The URL-parameter variant found a meal but no cocktail and answers 404.
C13_Witness ==
    /\ restApp.app = [controller |-> "pairingService", source |-> "params",
                      services |-> "guarded"]
    /\ restApp.mealOutcome.kind = "return"
    /\ restApp.mealOutcome.value.t = "object"
    /\ restApp.cocktailOutcome = Return(JsNull)
    /\ restApp.response = [status |-> 404,
                           body |-> [message |-> "No meal found with provided ingredient",
                                     ingredient |-> "lettuce"]]

\* What a service with try/catch must have returned for what its API produced:
\* null unless the API answered a non-empty list, else the record made by build
\* from one element of the list.
ReturnedNullOrElement(api, outcome, build(_)) ==
    /\ outcome.kind = "return"
    /\ IF api.kind = "ok" /\ api.list.t = "array" /\ api.list.items # << >>
       THEN \E i \in DOMAIN api.list.items : outcome.value = build(api.list.items[i])
       ELSE outcome.value = JsNull

MealOf(item) ==
    [t |-> "object", name |-> item.strMeal, category |-> item.strCategory,
     area |-> item.strArea]

CocktailOf(item) == [t |-> "object", name |-> item.strDrink]

\* C15: the services with try/catch never throw: they return null when the API
\* reports no result and when the request or the parsing of the response
\* fails, and otherwise a record built from one element of the returned list.
C15_GuardedServicesNeverThrow ==
    restApp.app.services = "guarded"
    => /\ restApp.mealApi # None
            => ReturnedNullOrElement(restApp.mealApi, restApp.mealOutcome, MealOf)
       /\ restApp.cocktailApi # None
            => ReturnedNullOrElement(restApp.cocktailApi, restApp.cocktailOutcome, CocktailOf)
       /\ restApp.actionOutcome.kind = "throw" => restApp.actionOutcome.error.name = "HttpError"

\* The request to the meals API failed and the meal service returned null.
C15_Witness ==
    /\ restApp.app.services = "guarded"
    /\ restApp.mealApi = [kind |-> "fetchError"]
    /\ restApp.mealOutcome = Return(JsNull)

\* C16: without try/catch, the services return null whenever the API's answer
\* holds no result, be the list null or empty, and neither throw nor return a
\* record with undefined fields.
C16_UnguardedNullWhenNoResults ==
    restApp.app.services = "unguarded"
    => LET noResult(api) ==
               /\ api.kind = "ok"
               /\ \/ api.list = JsNull
                  \/ api.list = JsArray(<< >>)
       IN  /\ noResult(restApp.mealApi) => restApp.mealOutcome = Return(JsNull)
           /\ noResult(restApp.cocktailApi) => restApp.cocktailOutcome = Return(JsNull)

(***************************************************************************)
(* CLI event claims                                                        *)
(***************************************************************************)

\* The position of a log entry in the lifecycle of a process run.
LifecycleRank(line) ==
    CASE line.message.entry = "Executing with arguments" -> 1
      [] line.message.entry = "Create Hello Message" -> 2
      [] line.message.entry = "Terminated with signal" -> 3

\* The lines of the log that hold the given entry.
LinesOf(entry) == { i \in DOMAIN cli.logger.log : cli.logger.log[i].message.entry = entry }

\* The CREATE_HELLO_MESSAGE events the SystemLogger has been called with.
LoggedEvents == { i \in DOMAIN cli.handled : cli.handled[i].listener = "SystemLogger" }

\* C17: in one run of say-hello with the SystemLogger registered, the log is in
\* lifecycle order: the PRE_EXECUTE entry comes before every
\* CREATE_HELLO_MESSAGE entry, which come before the POST_TERMINATE entry; each
\* event the logger handled is written exactly once, and the terminate entry is
\* the last line.
C17_LogInLifecycleOrder ==
    IsRegistered("SystemLogger")
    => LET log == cli.logger.log
       IN  /\ \A i, j \in DOMAIN log :
                i < j => /\ LifecycleRank(log[i]) <= LifecycleRank(log[j])
                         /\ log[i].time < log[j].time
           /\ Cardinality(LinesOf("Executing with arguments")) =
                (IF cli.pc = "start" THEN 0 ELSE 1)
           /\ Cardinality(LinesOf("Create Hello Message")) = Cardinality(LoggedEvents)
           /\ Cardinality(LoggedEvents) <= Len(cli.emitted)
           /\ (cli.pc \in {"executed", "terminated"})
                => Cardinality(LinesOf("Create Hello Message")) = Len(cli.emitted)
           /\ Cardinality(LinesOf("Terminated with signal")) =
                (IF cli.pc = "terminated" THEN 1 ELSE 0)
           /\ cli.pc = "terminated"
                => /\ log[Len(log)].message.entry = "Terminated with signal"
                   /\ log[1].message =
                        [entry |-> "Executing with arguments", process |-> "say-hello",
                         name |-> cli.args.name, language |-> cli.args.language]
           /\ cli.logger.errors = << >>

\* The run of the tutorial: say-hello Emma --language=fr logged its three events.
C17_Witness ==
    /\ cli.pc = "terminated"
    /\ cli.stage = "readonly"
    /\ cli.args = [language |-> "fr", name |-> <<"E", "m", "m", "a">>]
    /\ Len(cli.logger.log) = 3
    /\ cli.logger.log[1].message.entry = "Executing with arguments"
    /\ cli.logger.log[2].message =
         [entry |-> "Create Hello Message", availableLanguages |-> {"en", "fr", "es"},
          usedLanguage |-> "fr", parameters |-> [name |-> <<"E", "m", "m", "a">>]]
    /\ cli.logger.log[3].message =
         [entry |-> "Terminated with signal", process |-> "say-hello", signal |-> 0]

\* C18: each call of the event-emitting createHelloMessage(language, name) emits
\* exactly one CREATE_HELLO_MESSAGE event, delivered to every listener before
\* the call returns; its payload holds the keys of the messages map, the
\* language used (the given one if supported, else "en") and the name; with
\* the read-only event the call returns the base message.
C18_OneEventPerCall ==
    (cli.stage \in {"readonly", "writable"} /\ cli.pc \in {"emitting", "executed", "terminated"})
    => /\ Len(cli.emitted) = 1
       /\ cli.emitted[1].availableLanguages = DOMAIN cli.messages
       /\ cli.emitted[1].usedLanguage =
            (IF cli.args.language \in DOMAIN cli.messages THEN cli.args.language ELSE "en")
       /\ cli.emitted[1].parameters = [name |-> cli.args.name]
       /\ cli.result # None
            => /\ cli.queue = << >>
               /\ Len(cli.handled) = Len(cli.listeners)
               /\ cli.result.kind = "return"
       /\ (cli.stage = "readonly" /\ cli.result # None) => cli.result = cli.base

\* What a listener of the writable event makes of the message it sees.
TransformedBy(listener, message) ==
    CASE listener = "MessageDecorator" ->
            { <<"[">> \o ToISOString(ms) \o <<"]", " ">> \o message : ms \in 0..9 }
      [] listener = "EmojiDecorator" ->
            { PartyPopper \o <<" ">> \o message \o <<" ">> \o PartyPopper }
      [] listener = "MessageLengthLimiter" ->
            { IF Len(message) > 50 THEN SubSeq(message, 1, 47) \o <<".", ".", ".">>
              ELSE message }
      [] OTHER -> { message }

\* C19: with the writable event, createHelloMessage returns the final message
\* after all registered listeners have run: the listeners run in sequence, each
\* sees the message as the previous one left it (the first sees the base
\* message), and the returned value is the base message transformed by every
\* listener in turn; without listeners, or with listeners that set no message,
\* it is the base message.
C19_ReturnsTransformedMessage ==
    (cli.stage = "writable" /\ cli.pc \in {"executed", "terminated"})
    => /\ cli.result.kind = "return"
       /\ cli.base.kind = "return"
       /\ Len(cli.handled) = Len(cli.listeners)
       /\ \A i \in DOMAIN cli.handled :
            /\ cli.handled[i].listener = cli.listeners[i]
            /\ cli.handled[i].saw.message =
                 (IF i = 1 THEN cli.base.value ELSE cli.handled[i - 1].left.message)
            /\ cli.handled[i].left.message \in
                 TransformedBy(cli.listeners[i], cli.handled[i].saw.message)
       /\ cli.result.value =
            (IF cli.handled = << >> THEN cli.base.value
             ELSE cli.handled[Len(cli.handled)].left.message)
       /\ (\A i \in DOMAIN cli.listeners : cli.listeners[i] = "SystemLogger")
            => cli.result = cli.base
       /\ cli.stdout = <<cli.result.value>>

(***************************************************************************)
(* MongoDB module claims                                                   *)
(***************************************************************************)

\* The positions of a step in the history of the application.
StepsOf(step) == { i \in DOMAIN mongo.history : mongo.history[i] = step }

Precedes(first, second) ==
    \A j \in StepsOf(second) : \E i \in StepsOf(first) : i < j

\* C20: the connection follows the lifecycle: connect() is called on PRE_RUN,
\* after the configuration was loaded and validated on CONFIG_EVENTS.LOAD;
\* close() is called on POST_RUN; connect precedes close; and every execute
\* that calls getCollection runs strictly between the completed connect and
\* the start of close.
C20_ConnectionFollowsLifecycle ==
    /\ Cardinality(StepsOf("connect:called")) = (IF mongo.client = "none" THEN 0 ELSE 1)
    /\ mongo.pc \in {"init", "preRun"} => mongo.client = "none"
    /\ mongo.pc = "awaitConnect" => mongo.client = "connecting"
    /\ Precedes("config:loaded", "connect:called")
    /\ StepsOf("config:invalid") # {} => mongo.client = "none"
    /\ mongo.client # "none" =>
            (jsonSchemaValid(mongo.config) /\ mongo.url = MongoClientOf(mongo.config))
    /\ Cardinality(StepsOf("close:called")) =
            (IF mongo.pc \in {"awaitClose", "stopped"} THEN 1 ELSE 0)
    /\ Precedes("connect:called", "close:called")
    /\ Precedes("connect:done", "close:called")
    /\ Precedes("connect:done", "getCollection")
    /\ Precedes("getCollection", "execute:done")
    /\ \A i \in StepsOf("getCollection") \cup StepsOf("execute:done") :
            \A j \in StepsOf("close:called") : i < j
    /\ mongo.collection # None => mongo.collection.client = "connected"
    /\ mongo.pc \in {"run", "awaitFind", "postRun"} => mongo.client = "connected"

\* TestProcess read its collection between connect and close.
C20_Witness ==
    /\ mongo.process = "test-process"
    /\ mongo.pc = "stopped"
    /\ mongo.history = <<"config:loaded", "connect:called", "connect:done", "getCollection",
                         "execute:done", "close:called", "close:done">>
    /\ mongo.output = << <<[name |-> "test"]>> >>

\* The properties the configuration of the module has.
MongoProperties == {"host", "port", "username", "password", "database"}

\* An object with exactly the five properties, port a number, the others strings.
ExactMongoConfig(config) ==
    /\ DOMAIN config = MongoProperties
    /\ config["port"].t = "number"
    /\ \A key \in MongoProperties \ {"port"} : config[key].t = "string"

C22_LanguageAlwaysValidKey ==
    call.op = "executeInline"
    => /\ call.language \in DOMAIN InlineMessages
       /\ call.result = Return(TRUE)
       /\ call.writes \in { <<<<"H", "e", "l", "l", "o", ",", " ">> \o call.name \o <<"!">>>>,
                            <<<<"B", "o", "n", "j", "o", "u", "r", " ">> \o call.name \o <<" ", "!">>>> }

(***************************************************************************)
(* MealPairingService.getIngredientFromMeal: returned values               *)
(***************************************************************************)

\* The spirit names of the two maps, and the default.
SpiritNames ==
    { areaIngredientMap[key] : key \in DOMAIN areaIngredientMap } \cup
    { categoryIngredientMap[key] : key \in DOMAIN categoryIngredientMap } \cup
    { Vodka }

\* C23: for every meal, getIngredientFromMeal returns a string that is a spirit
\* name of the area map or of the category map, or Vodka; never undefined or
\* another value, also when the lower-cased area or category is the name of a
\* property every object inherits.
C23_ReturnsSpiritName ==
    pairing.op = "getIngredientFromMeal"
    => /\ pairing.result.t = "string"
       /\ pairing.result \in SpiritNames

(***************************************************************************)
(* SystemLogger descriptor claims                                          *)
(***************************************************************************)

\* C24: in every sequence of PRE_EXECUTE, CREATE_HELLO_MESSAGE and
\* POST_TERMINATE events delivered to one SystemLogger instance, the log file
\* descriptor is open at every writeLog and is closed at most once: nothing is
\* written to it or closes it after it has been closed.
C24_DescriptorNeverUsedAfterClose ==
    /\ cli.logger.errors = << >>
    /\ Len(cli.logger.log) = Len(cli.delivered)

(***************************************************************************)
(* Random selection claims                                                 *)
(***************************************************************************)

\* The API answered with a non-empty list.
NonEmptyList(api) ==
    /\ api.kind = "ok"
    /\ api.list.t = "array"
    /\ api.list.items # << >>

\* Every draw of Math.random() gives a 0-based index of the list, and the
\* service returned the record built from one of its elements.
PickedFromList(api, outcome, build(_)) ==
    LET items == api.list.items
    IN  /\ \A k \in 0..(RandomSteps - 1) :
                RandomIndex(k, Len(items)) \in 0..(Len(items) - 1)
        /\ \E k \in 0..(RandomSteps - 1) :
                outcome = Return(build(items[RandomIndex(k, Len(items)) + 1]))

\* C25: for a non-empty result list of length L the random index
\* floor(random * L), random in [0, 1), is in 0..L-1, so the meal (cocktail)
\* the service returns is an element of the list the API returned and its name
\* is that element's strMeal (strDrink).
C25_RandomIndexWithinList ==
    /\ NonEmptyList(restApp.mealApi)
            => /\ PickedFromList(restApp.mealApi, restApp.mealOutcome, MealOf)
               /\ \E i \in DOMAIN restApp.mealApi.list.items :
                        restApp.mealOutcome.value.name = restApp.mealApi.list.items[i].strMeal
    /\ NonEmptyList(restApp.cocktailApi)
            => /\ PickedFromList(restApp.cocktailApi, restApp.cocktailOutcome, CocktailOf)
               /\ \E i \in DOMAIN restApp.cocktailApi.list.items :
                        restApp.cocktailOutcome.value.name =
                            restApp.cocktailApi.list.items[i].strDrink

\* The last of two different meals was picked, and the last of two different
\* cocktails was picked for it.
C25_Witness ==
    /\ NonEmptyList(restApp.mealApi)
    /\ Len(restApp.mealApi.list.items) = MaxResults
    /\ restApp.mealApi.list.items[1] # restApp.mealApi.list.items[MaxResults]
    /\ restApp.mealOutcome = Return(MealOf(restApp.mealApi.list.items[MaxResults]))
    /\ NonEmptyList(restApp.cocktailApi)
    /\ Len(restApp.cocktailApi.list.items) = MaxResults
    /\ restApp.cocktailApi.list.items[1] # restApp.cocktailApi.list.items[MaxResults]
    /\ restApp.cocktailOutcome = Return(CocktailOf(restApp.cocktailApi.list.items[MaxResults]))

(***************************************************************************)
(* Homepage claims: keys and page structure                                *)
(***************************************************************************)

\* C26: the React key of each Feature cell is the position index of its item in
\* FeatureList: within one render the keys are pairwise distinct and are
\* exactly 0..N-1 in display order.
C26_KeysArePositions ==
    \A k \in DOMAIN rendered :
        LET cells == CellsOf(FeaturesOf(rendered[k]))
        IN  /\ \A i \in DOMAIN cells : cells[i].key = i - 1
            /\ \A i, j \in DOMAIN cells : cells[i].key = cells[j].key => i = j
            /\ { cells[i].key : i \in DOMAIN cells } = 0..(Len(featureList) - 1)

\* A render of MaxItems cells of which two show the same item.
C26_Witness ==
    /\ Len(featureList) = MaxItems
    /\ featureList[1] = featureList[2]
    /\ \E k \in DOMAIN rendered :
          LET cells == CellsOf(FeaturesOf(rendered[k]))
          IN  /\ Len(cells) = MaxItems
              /\ cells[1].props = cells[2].props
              /\ cells[1].key # cells[2].key

\* The positions of the children of an element that have the given type.
ChildrenOfType(element, type) ==
    { i \in DOMAIN element.children : element.children[i].type = type }

\* C27: Home renders exactly one HomepageHeader followed by exactly one main
\* region holding exactly one HomepageFeatures section, the header before the
\* feature section; the header holds the logo, then the tagline, then a single
\* 'Get started' link to /docs/intro.
C27_HomeStructure ==
    \A k \in DOMAIN rendered :
        rendered[k].component = "Home"
        => LET page == rendered[k].output
               header == page.children[1]
               main == page.children[2]
               hero == header.children[1]
               buttons == hero.children[3]
           IN  /\ page.type = "Layout"
               /\ Len(page.children) = 2
               /\ ChildrenOfType(page, "header") = {1}
               /\ ChildrenOfType(page, "main") = {2}
               /\ Len(main.children) = 1
               /\ main.children[1].type = "section"
               /\ main.children[1].className = <<styles.features>>
               /\ Len(CellsOf(main.children[1])) = Len(featureList)
               /\ Len(header.children) = 1
               /\ Len(hero.children) = 3
               /\ hero.children[1].type = "ThemedImage"
               /\ hero.children[1].alt = "Alliage logo"
               /\ hero.children[2].type = "p"
               /\ hero.children[2].text = siteConfig.tagline
               /\ buttons.type = "div"
               /\ Len(buttons.children) = 1
               /\ buttons.children[1].type = "Link"
               /\ buttons.children[1].to = "/docs/intro"
               /\ buttons.children[1].text = "Get started"

\* Home was rendered twice on a site served under /site/ with a full list.
C27_Witness ==
    /\ siteConfig.baseUrl = "/site/"
    /\ Len(featureList) = MaxItems
    /\ Len(rendered) >= 2
    /\ \A k \in DOMAIN rendered : rendered[k].component = "Home"

(***************************************************************************)
(* Template replacement claims                                             *)
(***************************************************************************)

\* The 0-based positions at which the placeholder occurs in a string.
Occurrences(str) ==
    { i \in 0..(Len(str) - Len(Placeholder)) :
        SubSeq(str, i + 1, i + Len(Placeholder)) = Placeholder }

\* C28: the injected createHelloMessage replaces only the first occurrence of
\* '{name}' of the template by the name: a template without the placeholder is
\* returned unchanged, and what follows the first occurrence, further
\* occurrences included, is found unchanged after the name.
C28_OnlyFirstOccurrenceReplaced ==
    (factory = "config" /\ call.op = "createHelloMessage"
        /\ call.language \in DOMAIN messages)
    => LET template == messages[call.language].helloMessage
           first == IndexOf(template, Placeholder)
           before == SubSeq(template, 1, first)
           after == SubSeq(template, first + Len(Placeholder) + 1, Len(template))
       IN  /\ call.result.kind = "return"
           /\ Occurrences(template) = {} => call.result.value = template
           /\ Occurrences(template) # {} =>
                 /\ first \in Occurrences(template)
                 /\ \A i \in Occurrences(template) : first <= i
                 /\ call.result.value = before \o call.name \o after

(***************************************************************************)
(* MessageLengthLimiter claims                                             *)
(***************************************************************************)

\* What MessageLengthLimiter was given and what it left, for each event it handled.
LimiterHandled ==
    { cli.handled[i] : i \in { j \in DOMAIN cli.handled :
                                  cli.handled[j].listener = "MessageLengthLimiter" } }

\* C29: after MessageLengthLimiter.handleCreateHelloMessage handled an event,
\* the message has at most 50 characters: a longer message became its first 47
\* characters followed by '...' (exactly 50), a message of 50 characters or
\* less is unchanged; handling the event a second time changes nothing.
C29_LimitedToFifty ==
    \A h \in LimiterHandled :
        LET given == getMessage(h.saw)
            left == getMessage(h.left)
        IN  /\ Len(left) <= 50
            /\ Len(given) > 50 =>
                  /\ left = SubSeq(given, 1, 47) \o <<".", ".", ".">>
                  /\ Len(left) = 50
            /\ Len(given) <= 50 => h.left = h.saw
            /\ h.left = [h.saw EXCEPT !.message = left]
            /\ MessageLengthLimiter_handleCreateHelloMessage(h.left) = h.left

\* The limiter was given a message of 51 characters and the run wrote the 50
\* characters it left.
C29_Witness ==
    /\ cli.pc = "terminated"
    /\ \E h \in LimiterHandled :
          /\ Len(getMessage(h.saw)) = 51
          /\ Len(getMessage(h.left)) = 50
          /\ cli.stdout = <<getMessage(h.left)>>

====
